---- MODULE Spec2Model ----
(***************************************************************************)
(* agave-files-sync.py: the command line front end (__main__) and the      *)
(* three recursive walkers recursive_get, recursive_upload and             *)
(* recursive_import, modelled over two small file trees.                   *)
(*                                                                         *)
(* A file tree is a set of entries [path, type, mtime]; a path is the      *)
(* sequence of names below the tree's root, and the root itself (the       *)
(* source directory S, the destination directory D) is an existing         *)
(* directory.  The recursion is a stack of frames, one per active call of  *)
(* a walker, the head of the sequence being the running call.              *)
(***************************************************************************)
EXTENDS Integers, Sequences, FiniteSets, Bags, TLC

\* ------------------------------------------------------------------ bounds
\* modification times range over 1..MaxTime
MaxTime == 2
\* longest path below the root of an initial tree
MaxDepth == 2
\* entries of the initial source tree and destination tree together
MaxNodes == 3

\* names of children, and basename of the source directory S
Names == {"a", "b"}
SrcBase == "s"

\* ------------------------------------------------------- program constants
agave_prefix == "agave://"
url_prefix == "http"
agave == "agave"
url == "url"
local == "local"
\* the part of lastModified that get_agavefile_modtime cuts off ([:-10])
Suffix == ".000-05:00"

\* ------------------------------------------------------------- file trees
Entry(p, ty, t) == [path |-> p, type |-> ty, mtime |-> t]

Has(fs, p) == \E e \in fs : e.path = p
Node(fs, p) == CHOOSE e \in fs : e.path = p
\* os.path.isdir / os.path.isfile (the root is a directory)
isdir(fs, p) == p = <<>> \/ \E e \in fs : e.path = p /\ e.type = "dir"
isfile(fs, p) == \E e \in fs : e.path = p /\ e.type = "file"
Parent(p) == SubSeq(p, 1, Len(p) - 1)
\* os.path.basename of a directory of the source tree
basename(p) == IF p = <<>> THEN SrcBase ELSE p[Len(p)]
Children(fs, p) == {e \in fs : Len(e.path) = Len(p) + 1 /\ Parent(e.path) = p}
\* os.listdir: the names in a directory
listdir(fs, p) == {basename(e.path) : e \in Children(fs, p)}
Put(fs, p, ty, t) == {e \in fs : e.path # p} \cup {Entry(p, ty, t)}
Prefixes(p) == {SubSeq(p, 1, n) : n \in 1..Len(p)}
\* os.makedirs: creates the directory and every missing ancestor
MakeDirs(fs, p, t) == fs \cup {Entry(q, "dir", t) : q \in {q \in Prefixes(p) : ~Has(fs, q)}}
\* os.makedirs raises when the leaf exists or an ancestor is a file
MakeDirsFails(fs, p) == \E q \in Prefixes(p) : isfile(fs, q) \/ (q = p /\ Has(fs, q))

\* the trees with at most k entries below the directory pre, d levels deep;
\* dt is the set of modification times a directory may carry
RECURSIVE Trees(_, _, _, _), TreesOver(_, _, _, _, _)
NodeTrees(pre, n, d, k, dt) ==
    IF k = 0 THEN {{}}
    ELSE {{}}
         \cup {{Entry(pre \o <<n>>, "file", t)} : t \in 1..MaxTime}
         \cup UNION {{{Entry(pre \o <<n>>, "dir", t)} \cup sub :
                        sub \in Trees(pre \o <<n>>, d - 1, k - 1, dt)} : t \in dt}
TreesOver(names, pre, d, k, dt) ==
    IF names = {} THEN {{}}
    ELSE LET n == CHOOSE x \in names : TRUE
         IN  UNION {{A \cup B : B \in TreesOver(names \ {n}, pre, d, k - Cardinality(A), dt)} :
                       A \in NodeTrees(pre, n, d, k, dt)}
Trees(pre, d, k, dt) == IF d = 0 \/ k = 0 THEN {{}} ELSE TreesOver(Names, pre, d, k, dt)

\* a directory of an initial tree carries the earliest time: the code reads
\* the time of a directory only where a source file meets a destination
\* directory of the same name, and the file's own time ranges over 1..MaxTime
SrcTrees == Trees(<<>>, MaxDepth, MaxNodes, {1})
\* destination trees with at most k entries: a tree where the walk goes, that
\* is directly in D (nested = FALSE) or in a directory named like the source
\* directory, or a file of that name
DstTrees(k, nested) ==
    IF ~nested THEN Trees(<<>>, MaxDepth, k, {1})
    ELSE {{}} \cup
         (IF k = 0 THEN {}
          ELSE {{Entry(<<SrcBase>>, "file", t)} : t \in 1..MaxTime}
               \cup {{Entry(<<SrcBase>>, "dir", 1)} \cup sub :
                        sub \in Trees(<<SrcBase>>, MaxDepth, k - 1, {1})})

\* --------------------------------------------------------- remote listings
\* lastModified as the remote API gives it: the time and a fixed-width suffix
LastModified(t) == <<t, Suffix>>
Desc(n, ty, t, b) == [name |-> n, type |-> ty, lastModified |-> LastModified(t), base |-> b]
\* the JSON result of a files-list of directory p: the self entry "." whose
\* path ends in the directory's name, and one entry per child
ListDir(fs, p) ==
    {Desc(".", "dir", IF p = <<>> THEN 1 ELSE Node(fs, p).mtime, basename(p))}
    \cup {Desc(basename(e.path), e.type, e.mtime, basename(e.path)) : e \in Children(fs, p)}
\* a files-list of a file gives the file's own entry
ListFile(fs, p) == {Desc(basename(p), "file", Node(fs, p).mtime, basename(p))}
Listing(fs, p) == IF isdir(fs, p) THEN ListDir(fs, p) ELSE ListFile(fs, p)
\* a files-list of something that does not exist has no 200 answer
CanList(fs, p) == p = <<>> \/ Has(fs, p)

\* ------------------------------------------------------ modification times
get_localfile_modtime(fs, p) == IF p = <<>> THEN 1 ELSE Node(fs, p).mtime
get_agavefile_modtime(d) == d.lastModified[1]
newer_agavefile(fs, p, d) == get_agavefile_modtime(d) > get_localfile_modtime(fs, p)
newer_importfile(imp, dest) == get_agavefile_modtime(imp) > get_agavefile_modtime(dest)
\* sametype(local_filepath, agave_description)
sametype(fs, p, d) == (isfile(fs, p) /\ d.type = "file") \/ (isdir(fs, p) /\ d.type = "dir")


\* ------------------------------------------------------------------ state
VARIABLES
    args,       \* the parsed command line and the state of the credential cache
    selfFirst,  \* whether the remote API lists the self entry "." first
    src,        \* the source tree (never written)
    dst,        \* the destination tree
    dstStart,   \* the destination tree when the first run started
    status,     \* "main", "running", "done", "error" or "aborted"
    msg,        \* the message the process terminated with
    mode,       \* "first" run, run "again" on its result, or "perm": run anew
    stack,      \* the frames of the active walker calls, innermost first
    reqs,       \* HTTP requests and local writes issued by the current run
    log,        \* progress lines printed by the current run
    calls,      \* bag of the walker calls made by the current run
    listed,     \* bag of the destination paths the current run has listed
    walked,     \* directories whose top-level step the current run has done
    trail,      \* the entries the loops of the current run took, in order
    first       \* what the first run did and left, once it is over

vars == <<args, selfFirst, src, dst, dstStart, status, msg, mode, stack, reqs, log,
          calls, listed, walked, trail, first>>

\* a request: what it is, the destination path it is about, and for a
\* transfer the source path of the file
Xfer(op, p, from) == [op |-> op, path |-> p, from |-> from]
Req(op, p) == Xfer(op, p, <<>>)
Line(verb, p, tag) == [verb |-> verb, path |-> p, tag |-> tag]
Frame(sp, dest, skipdir, info) ==
    [sp |-> sp, dest |-> dest, skipdir |-> skipdir, info |-> info, rem |-> {}, pc |-> "enter"]
Call(sp, dest, skipdir) == [sp |-> sp, dest |-> dest, skipdir |-> skipdir]

\* ------------------------------------------------------------- __main__
CacheStates == {"ok", "expired", "missing", "malformed", "nokeys"}
PathArgs == [prefix : {agave_prefix, url_prefix, "/"}, slash : BOOLEAN, exists : BOOLEAN]
\* the destination: slashes is the number of separators the argument ends in
\* and, for a local path that exists, isfile tells a regular file from a directory
DestArgs == {d \in [prefix : {agave_prefix, url_prefix, "/"}, slashes : 0..2,
                    exists : BOOLEAN, isfile : BOOLEAN] :
                d.isfile => (d.exists /\ d.prefix = "/")}

get_path_type(path) ==
    IF path.prefix = agave_prefix THEN agave
    ELSE IF path.prefix = url_prefix THEN url
    ELSE local

\* the assertion of get_path_type on a local path
ValidPath(path) == get_path_type(path) = local => path.exists

Exit(m) == [kind |-> "exit", msg |-> m]
Run(k) == [kind |-> k, msg |-> ""]

\* variant: --recursive with a generic url as the source starts the walker
DispatchUrlWalk(a) ==
    LET source_type == get_path_type(a.source)
        dest_type == get_path_type(a.destination)
    IN  IF source_type # local /\ dest_type = local
        THEN IF ~a.recursive THEN Run("files_download") ELSE Run("recursive_get")
        ELSE IF source_type = local /\ dest_type = agave
        THEN IF a.recursive THEN Run("recursive_upload") ELSE Run("files_upload")
        ELSE IF source_type # local /\ dest_type = agave
        THEN IF ~a.recursive THEN Run("files_import") ELSE Run("recursive_import")
        ELSE Exit("Cannot have source type and destination type")

\* the branch of __main__ that the command line a selects
Dispatch(a) ==
    LET source_type == get_path_type(a.source)
        dest_type == get_path_type(a.destination)
    IN  IF source_type # local /\ dest_type = local
        THEN IF ~a.recursive THEN Run("files_download")
             ELSE IF source_type = url THEN Exit("Cannot recursively download from a generic url")
             ELSE Run("recursive_get")
        ELSE IF source_type = local /\ dest_type = agave
        THEN IF a.recursive THEN Run("recursive_upload") ELSE Run("files_upload")
        ELSE IF source_type # local /\ dest_type = agave
        THEN IF ~a.recursive THEN Run("files_import")
             ELSE IF source_type = url THEN Exit("Cannot recursively import from a generic url")
             ELSE Run("recursive_import")
        ELSE Exit("Cannot have source type and destination type")

\* variant: the expiry of the token is not looked at
OutcomeNoExpiry(a) ==
    IF a.cache \in {"missing", "malformed", "nokeys"} THEN Exit("Error reading from cache")
    ELSE IF a.source.slash /\ ~a.recursive THEN Exit("Please provide either a path to a file")
    ELSE IF ~ValidPath(a.source) \/ ~ValidPath(a.destination) THEN Exit("Invalid local path")
    ELSE Dispatch(a)

\* variant: a cache without created_at or expires_in counts as expired
OutcomeKeysExpired(a) ==
    IF a.cache \in {"missing", "malformed"} THEN Exit("Error reading from cache")
    ELSE IF a.cache \in {"expired", "nokeys"} THEN Exit("Access token is expired")
    ELSE IF a.source.slash /\ ~a.recursive THEN Exit("Please provide either a path to a file")
    ELSE IF ~ValidPath(a.source) \/ ~ValidPath(a.destination) THEN Exit("Invalid local path")
    ELSE Dispatch(a)

\* what __main__ does before it transfers anything
Outcome(a) ==
    IF a.cache \in {"missing", "malformed", "nokeys"} THEN Exit("Error reading from cache")
    ELSE IF a.cache = "expired" THEN Exit("Access token is expired")
    ELSE IF a.source.slash /\ ~a.recursive THEN Exit("Please provide either a path to a file")
    ELSE IF ~ValidPath(a.source) \/ ~ValidPath(a.destination) THEN Exit("Invalid local path")
    ELSE Dispatch(a)

Walker == Outcome(args).kind
\* line 315 strips one separator off the destination: whether one is left
dest_slash == args.destination.slashes > 1
\* the local destination is a regular file: isfile(path) passes line 29 too
dest_isfile == args.destination.isfile
\* os.path.isdir of a path at the local destination
local_isdir(p) == ~dest_isfile /\ isdir(dst, p)
\* skipdir=source_slash
TopFrame == Frame(<<>>, <<>>, args.source.slash, {})


\* ------------------------------------------------------- steps of a walker
\* One step of the running call gives a set of possible results: whether an
\* exception was raised, the requests issued, the destination tree and the
\* lines printed, the frame as the step leaves it, and the call it makes.
Ok(rq, d, lg, fr, push, wk) ==
    [err |-> FALSE, reqs |-> rq, dst |-> d, log |-> lg, fr |-> fr, push |-> push, walked |-> wk]
Err(rq, d, lg, fr) ==
    [err |-> TRUE, reqs |-> rq, dst |-> d, log |-> lg, fr |-> fr, push |-> <<>>, walked |-> {}]

\* the run takes place when nothing in either tree is newer: what it writes
\* gets the latest time
Now == MaxTime

\* variant: the exception is caught and the calls go on
Swallow(stk) == stk

\* an uncaught exception (a failed assert, an OSError) ends every active call
Propagate(stk) == <<>>

\* the entries the for loop may take next: the listing is a list in the
\* server's order, of which the model only fixes whether "." comes first
Heads(fr) ==
    IF selfFirst /\ \E i \in fr.rem : i.name = "."
    THEN {i \in fr.rem : i.name = "."}
    ELSE fr.rem

\* variant: the loop ends after the first entry that is not the self entry
DoneBreak(fr, i) == [fr EXCEPT !.rem = IF i.name = "." THEN fr.rem \ {i} ELSE {}]

\* the for loop goes on with the rest of the listing (lines 150, 243)
Done(fr, i) == [fr EXCEPT !.rem = fr.rem \ {i}]
\* the for loop goes on with the rest of the directory (line 216)
DoneName(fr, filename) == [fr EXCEPT !.rem = fr.rem \ {filename}]

\* ------------------------------------------------------------ recursive_get
\* lines 147-148
GetEnterOuts(fr) ==
    {Err({Req("list_src", fr.sp)}, dst, {}, fr),
     Ok({Req("list_src", fr.sp)}, dst, {},
        [fr EXCEPT !.rem = Listing(src, fr.sp), !.pc = "loop"], <<>>, {})}

\* variant: the directory's name is appended whatever skipdir says
get_destination_nested(destination, directoryname, skipdir) ==
    destination \o <<directoryname>>

\* lines 156-159: the destination after the self entry
get_destination(destination, directoryname, skipdir) ==
    IF skipdir THEN destination ELSE destination \o <<directoryname>>

\* lines 154-165
GetSelfOuts(fr, i) ==
    LET nd == get_destination(fr.dest, i.base, fr.skipdir)
        nf == [Done(fr, i) EXCEPT !.dest = nd]
        wk == {[sp |-> fr.sp, dest |-> nd]}
    IN  IF fr.skipdir
        THEN {Ok({}, dst, {Line("skipping", nd, "matching")}, nf, <<>>, wk)}
        ELSE IF local_isdir(nd)
        THEN {Ok({}, dst, {Line("skipping", nd, "exists")}, nf, <<>>, wk)}
        ELSE IF dest_isfile \/ MakeDirsFails(dst, nd)
        THEN {Err({Req("makedirs", nd)}, dst, {Line("mkdir", nd, "")}, fr)}
        ELSE {Ok({Req("makedirs", nd)}, MakeDirs(dst, nd, Now), {Line("mkdir", nd, "")},
                 nf, <<>>, wk)}

\* variant: the call gets the destination already extended by the name
get_recursion_extended(fr, i) == Frame(fr.sp \o <<i.name>>, fr.dest \o <<i.name>>, FALSE, {})
\* variant: the call passes the caller's skipdir on
get_recursion_skipdir(fr, i) == Frame(fr.sp \o <<i.name>>, fr.dest, fr.skipdir, {})

\* lines 169-170: the call for a directory entry
get_recursion(fr, i) == Frame(fr.sp \o <<i.name>>, fr.dest, FALSE, {})

\* variant: the call for a directory entry is made twice
GetDirOutsTwice(fr, i) ==
    {Ok({}, dst, {}, Done(fr, i), <<get_recursion(fr, i), get_recursion(fr, i)>>, {})}

GetDirOuts(fr, i) == {Ok({}, dst, {}, Done(fr, i), <<get_recursion(fr, i)>>, {})}

\* files_download, lines 71-81: GET, then open(path, 'wb') and write
files_download(fr, i, to, name, tag) ==
    LET target == to \o <<name>>
        rq == {Xfer("download", target, fr.sp \o <<name>>)}
        lg == {Line("downloading", target, tag)}
    IN  {Err(rq, dst, lg, fr)}
        \cup (IF isdir(dst, target) \/ ~local_isdir(to)
              THEN {}
              ELSE {Ok(rq, Put(dst, target, "file", Now), lg, Done(fr, i), <<>>, {})})

\* variant: a file that is not there is new, without listing the directory
GetFileOutsNoListdir(fr, i) ==
    LET filename_fullpath == fr.dest \o <<i.name>>
    IN  IF ~Has(dst, filename_fullpath) \/ dest_isfile
        THEN files_download(fr, i, fr.dest, i.name, "new")
        ELSE IF newer_agavefile(dst, filename_fullpath, i)
        THEN files_download(fr, i, fr.dest, i.name, "modified")
        ELSE {Ok({}, dst, {Line("skipping", filename_fullpath, "exists")}, Done(fr, i), <<>>, {})}

\* lines 173-184
GetFileOuts(fr, i) ==
    LET filename_fullpath == fr.dest \o <<i.name>>
    IN  IF ~local_isdir(fr.dest) THEN {Err({}, dst, {}, fr)}
        ELSE IF i.name \notin listdir(dst, fr.dest)
        THEN files_download(fr, i, fr.dest, i.name, "new")
        ELSE IF newer_agavefile(dst, filename_fullpath, i)
        THEN files_download(fr, i, fr.dest, i.name, "modified")
        ELSE {Ok({}, dst, {Line("skipping", filename_fullpath, "exists")}, Done(fr, i), <<>>, {})}

\* --------------------------------------------------------- request wrappers
\* a dict keyed by name, as built from a listing
Keys(info) == {d.name : d \in info}
At(info, n) == CHOOSE d \in info : d.name = n

\* the remote side accepts a new directory or file where the parent is a
\* directory and the name is not taken by something of the other kind
CanMkdir(fs, p) == isdir(fs, Parent(p)) /\ ~Has(fs, p)
CanStore(fs, p) == isdir(fs, Parent(p)) /\ ~isdir(fs, p)

\* files_upload, lines 83-93, as called for a child of the walked directory
files_upload(fr, filename, tag) ==
    LET target == fr.dest \o <<filename>>
        rq == {Xfer("upload", target, fr.sp \o <<filename>>)}
        lg == {Line("uploading", target, tag)}
    IN  {Err(rq, dst, lg, fr)}
        \cup (IF CanStore(dst, target)
              THEN {Ok(rq, Put(dst, target, "file", Now), lg, DoneName(fr, filename), <<>>, {})}
              ELSE {})

\* files_import, lines 102-109, as called for a file entry
files_import(fr, i, tag) ==
    LET target == fr.dest \o <<i.name>>
        rq == {Xfer("import", target, fr.sp \o <<i.name>>)}
        lg == {Line("importing", target, tag)}
    IN  {Err(rq, dst, lg, fr)}
        \cup (IF CanStore(dst, target)
              THEN {Ok(rq, Put(dst, target, "file", Now), lg, Done(fr, i), <<>>, {})}
              ELSE {})

\* --------------------------------------------------------- recursive_upload
\* lines 202-213: the base directory, given the listing urlinfo of the url
UploadBase(fr, urlinfo, rq0) ==
    LET dirname == basename(fr.sp)
        nurl == fr.dest \o <<dirname>>
        new == dirname \notin Keys(urlinfo)
        lg == IF new THEN {Line("mkdir", nurl, "new")} ELSE {}
        rqm == rq0 \cup (IF new THEN {Req("mkdir", nurl)} ELSE {})
        made == IF new THEN Put(dst, nurl, "dir", Now) ELSE dst
        rql == rqm \cup {Req("list_dst", nurl)}
        loop(u, info) == [fr EXCEPT !.dest = u, !.info = info,
                                    !.rem = listdir(src, fr.sp), !.pc = "loop"]
    IN  IF fr.skipdir
        THEN {Ok(rq0, dst, {Line("skipping", fr.dest, "matching")}, loop(fr.dest, urlinfo),
                 <<>>, {[sp |-> fr.sp, dest |-> fr.dest]})}
        ELSE (IF new THEN {Err(rqm, dst, lg, fr)} ELSE {})
             \cup (IF new /\ ~CanMkdir(dst, nurl) THEN {}
                   ELSE {Err(rql, made, lg, fr)}
                        \cup (IF CanList(made, nurl) /\ "." \in Keys(Listing(made, nurl))
                              THEN {Ok(rql, made, lg, loop(nurl, Listing(made, nurl)),
                                       <<>>, {[sp |-> fr.sp, dest |-> nurl]})}
                              ELSE {}))

\* lines 189-213
UploadEnterOuts(fr) ==
    IF fr.sp = <<>> /\ dest_slash
    THEN {Err({}, dst, {}, fr)}
    ELSE IF fr.info = {}
    THEN {Err({Req("list_dst", fr.dest)}, dst, {}, fr)}
         \cup (IF CanList(dst, fr.dest) /\ "." \in Keys(Listing(dst, fr.dest))
               THEN UploadBase(fr, Listing(dst, fr.dest), {Req("list_dst", fr.dest)})
               ELSE {})
    ELSE UploadBase(fr, fr.info, {})

\* variant: the call passes the caller's skipdir on
upload_recursion_skipdir(fr, filename) ==
    Frame(fr.sp \o <<filename>>, fr.dest, fr.skipdir, fr.info)

\* line 232: the call for a local directory
upload_recursion(fr, filename) == Frame(fr.sp \o <<filename>>, fr.dest, FALSE, fr.info)

\* lines 219-220: the file is transferred as modified
upload_modified(fullpath, description) == ~newer_agavefile(src, fullpath, description)

\* lines 216-232, one pass of the loop
UploadEntryOuts(fr, filename) ==
    LET fullpath == fr.sp \o <<filename>>
        target == fr.dest \o <<filename>>
        push == IF isdir(src, fullpath) THEN <<upload_recursion(fr, filename)>> ELSE <<>>
    IN  IF filename \in Keys(fr.info) /\ sametype(src, fullpath, At(fr.info, filename))
        THEN IF isdir(src, fullpath) \/ ~upload_modified(fullpath, At(fr.info, filename))
             THEN {Ok({}, dst, {Line("skipping", target, "exists")}, DoneName(fr, filename),
                      push, {})}
             ELSE files_upload(fr, filename, "modified")
        ELSE IF isfile(src, fullpath)
        THEN files_upload(fr, filename, "new")
        ELSE {Ok({}, dst, {}, DoneName(fr, filename), push, {})}

\* --------------------------------------------------------- recursive_import
\* lines 238-243: the destination is listed whatever dfiles was passed
ImportEnterOuts(fr) ==
    LET rqd == {Req("list_dst", fr.dest)}
        rqs == rqd \cup {Req("list_src", fr.sp)}
    IN  {Err(rqd, dst, {}, fr)}
        \cup (IF CanList(dst, fr.dest)
              THEN {Err(rqs, dst, {}, fr),
                    Ok(rqs, dst, {}, [fr EXCEPT !.info = Listing(dst, fr.dest),
                                                !.rem = Listing(src, fr.sp),
                                                !.pc = "loop"], <<>>, {})}
              ELSE {})

\* lines 249-257: the destination after the self entry
import_destination(destination, dirname, skipdir) ==
    IF skipdir THEN destination ELSE destination \o <<dirname>>

\* lines 247-259
ImportSelfOuts(fr, i) ==
    LET dirname == i.base
        nd == import_destination(fr.dest, dirname, fr.skipdir)
        new == dirname \notin Keys(fr.info)
        lg == IF new THEN {Line("mkdir", nd, "new")} ELSE {Line("skipping", nd, "exists")}
        rqm == IF new THEN {Req("mkdir", nd)} ELSE {}
        made == IF new THEN Put(dst, nd, "dir", Now) ELSE dst
        rql == rqm \cup {Req("list_dst", nd)}
    IN  IF fr.skipdir
        THEN {Ok({}, dst, {Line("skipping", nd, "matching")}, Done(fr, i), <<>>,
                 {[sp |-> fr.sp, dest |-> nd]})}
        ELSE (IF new THEN {Err(rqm, dst, lg, fr)} ELSE {})
             \cup (IF new /\ ~CanMkdir(dst, nd) THEN {}
                   ELSE {Err(rql, made, lg, fr)}
                        \cup (IF CanList(made, nd)
                              THEN {Ok(rql, made, lg,
                                       [Done(fr, i) EXCEPT !.dest = nd,
                                                           !.info = Listing(made, nd)],
                                       <<>>, {[sp |-> fr.sp, dest |-> nd]})}
                              ELSE {}))

\* lines 263-264: the call for a directory entry
import_recursion(fr, i) == Frame(fr.sp \o <<i.name>>, fr.dest, FALSE, fr.info)

ImportDirOuts(fr, i) == {Ok({}, dst, {}, Done(fr, i), <<import_recursion(fr, i)>>, {})}

\* variant: the membership test of line 269 is inverted
ImportFileOutsInverted(fr, i) ==
    IF i.name \in Keys(fr.info)
    THEN files_import(fr, i, "new")
    ELSE {Ok({}, dst, {Line("skipping", fr.dest \o <<i.name>>, "exists")}, Done(fr, i),
             <<>>, {})}

\* lines 267-276
ImportFileOuts(fr, i) ==
    IF i.name \notin Keys(fr.info)
    THEN files_import(fr, i, "new")
    ELSE IF newer_importfile(i, At(fr.info, i.name))
    THEN files_import(fr, i, "modified")
    ELSE {Ok({}, dst, {Line("skipping", fr.dest \o <<i.name>>, "exists")}, Done(fr, i),
             <<>>, {})}

\* ----------------------------------------------------------------- actions
Top == Head(stack)

\* the calls a step makes, as a bag
RECURSIVE CallsOf(_)
CallsOf(push) ==
    IF push = <<>> THEN EmptyBag
    ELSE SetToBag({Call(push[1].sp, push[1].dest, push[1].skipdir)}) (+) CallsOf(Tail(push))

Apply(o, visit) ==
    /\ trail' = trail \o visit
    /\ reqs' = reqs \cup o.reqs
    /\ listed' = listed (+) SetToBag({r.path : r \in {q \in o.reqs : q.op = "list_dst"}})
    /\ dst' = o.dst
    /\ log' = log \cup o.log
    /\ walked' = walked \cup o.walked
    /\ IF o.err
       THEN /\ stack' = Propagate(stack)
            /\ status' = "error"
            /\ calls' = calls
       ELSE /\ stack' = o.push \o <<o.fr>> \o Tail(stack)
            /\ status' = status
            /\ calls' = calls (+) CallsOf(o.push)
    /\ UNCHANGED <<args, selfFirst, src, dstStart, msg, mode, first>>

\* the pass of the loop of the running call over the entry called name
Visit(name) == <<Top.sp \o <<name>>>>

Running(w, pc) == stack # <<>> /\ Walker = w /\ Top.pc = pc

GetEnter ==
    /\ Running("recursive_get", "enter")
    /\ \E o \in GetEnterOuts(Top) : Apply(o, <<>>)

GetSelf ==
    /\ Running("recursive_get", "loop")
    /\ \E i \in Heads(Top) :
          /\ i.type = "dir" /\ i.name = "."
          /\ \E o \in GetSelfOuts(Top, i) : Apply(o, Visit(i.name))

GetDir ==
    /\ Running("recursive_get", "loop")
    /\ \E i \in Heads(Top) :
          /\ i.type = "dir" /\ i.name # "."
          /\ \E o \in GetDirOuts(Top, i) : Apply(o, Visit(i.name))

GetFile ==
    /\ Running("recursive_get", "loop")
    /\ \E i \in Heads(Top) :
          /\ i.type # "dir"
          /\ \E o \in GetFileOuts(Top, i) : Apply(o, Visit(i.name))

UploadEnter ==
    /\ Running("recursive_upload", "enter")
    /\ \E o \in UploadEnterOuts(Top) : Apply(o, <<>>)

UploadEntry ==
    /\ Running("recursive_upload", "loop")
    /\ \E filename \in Top.rem :
          \E o \in UploadEntryOuts(Top, filename) : Apply(o, Visit(filename))

ImportEnter ==
    /\ Running("recursive_import", "enter")
    /\ \E o \in ImportEnterOuts(Top) : Apply(o, <<>>)

ImportSelf ==
    /\ Running("recursive_import", "loop")
    /\ \E i \in Heads(Top) :
          /\ i.type = "dir" /\ i.name = "."
          /\ \E o \in ImportSelfOuts(Top, i) : Apply(o, Visit(i.name))

ImportDir ==
    /\ Running("recursive_import", "loop")
    /\ \E i \in Heads(Top) :
          /\ i.type = "dir" /\ i.name # "."
          /\ \E o \in ImportDirOuts(Top, i) : Apply(o, Visit(i.name))

ImportFile ==
    /\ Running("recursive_import", "loop")
    /\ \E i \in Heads(Top) :
          /\ i.type # "dir"
          /\ \E o \in ImportFileOuts(Top, i) : Apply(o, Visit(i.name))

\* the for loop is over: the call returns
Return ==
    /\ stack # <<>>
    /\ Top.pc = "loop" /\ Top.rem = {}
    /\ stack' = Tail(stack)
    /\ status' = IF Tail(stack) = <<>> THEN "done" ELSE status
    /\ UNCHANGED <<args, selfFirst, src, dst, dstStart, msg, mode, reqs, log, calls,
                   listed, walked, trail, first>>

Recursive == Walker \in {"recursive_get", "recursive_upload", "recursive_import"}
TopCall == SetToBag({Call(<<>>, <<>>, args.source.slash)})

Single == Walker \in {"files_download", "files_upload", "files_import"}
\* the request a transfer without --recursive issues
SingleOp == CASE Walker = "files_download" -> "download"
              [] Walker = "files_upload" -> "upload"
              [] OTHER -> "import"
\* the name it stores under: --name, or the basename of the source
SingleTarget == <<IF args.name = "" THEN SrcBase ELSE args.name>>

\* __main__, lines 291-360: the checks, then the transfer or the walker's
\* first call
Main ==
    /\ status = "main"
    /\ LET o == Outcome(args)
       IN  \/ /\ o.kind = "exit"
              /\ status' = "aborted"
              /\ msg' = o.msg
              /\ UNCHANGED <<stack, calls, reqs, dst>>
           \/ /\ Recursive
              /\ status' = "running"
              /\ stack' = <<TopFrame>>
              /\ calls' = TopCall
              /\ UNCHANGED <<msg, reqs, dst>>
           \/ /\ Single
              /\ reqs' = {Req(SingleOp, SingleTarget)}
              /\ \/ status' = "error" /\ dst' = dst
                 \/ /\ CanStore(dst, SingleTarget) /\ ~dest_isfile
                    /\ status' = "done"
                    /\ dst' = Put(dst, SingleTarget, "file", Now)
              /\ UNCHANGED <<msg, stack, calls>>
    /\ UNCHANGED <<args, selfFirst, src, dstStart, mode, log, listed, walked, trail, first>>

StartAgain(m, d) ==
    /\ status = "done" /\ mode = "first" /\ Recursive
    /\ first' = [reqs |-> reqs, dst |-> dst, log |-> log, trail |-> trail]
    /\ mode' = m
    /\ dst' = d
    /\ status' = "running"
    /\ stack' = <<TopFrame>>
    /\ calls' = TopCall
    /\ reqs' = {} /\ log' = {} /\ listed' = EmptyBag /\ walked' = {} /\ trail' = <<>>
    /\ UNCHANGED <<args, selfFirst, src, dstStart, msg>>

\* the same command once more, on what the first run left
Rerun == StartAgain("again", dst)
\* the same download or import on the same trees as the first run
Replay == Walker # "recursive_upload" /\ StartAgain("perm", dstStart)

\* ---------------------------------------------------------- specifications
OkArgs(st, dt, slash) ==
    [cache |-> "ok", recursive |-> TRUE, name |-> "",
     source |-> [prefix |-> st, slash |-> slash, exists |-> TRUE],
     destination |-> [prefix |-> dt, slashes |-> 0, exists |-> TRUE, isfile |-> FALSE]]

InitRest ==
    /\ dstStart = dst
    /\ status = "main" /\ msg = "" /\ mode = "first"
    /\ stack = <<>> /\ reqs = {} /\ log = {} /\ calls = EmptyBag /\ listed = EmptyBag
    /\ walked = {}
    /\ trail = <<>>
    /\ first = [reqs |-> {}, dst |-> {}, log |-> {}, trail |-> <<>>]

\* a recursive run of one of the walkers over any pair of small trees
InitWalk ==
    /\ \E p \in {<<agave_prefix, "/">>, <<"/", agave_prefix>>, <<agave_prefix, agave_prefix>>},
          slash \in BOOLEAN : args = OkArgs(p[1], p[2], slash)
    /\ src \in SrcTrees
    /\ dst \in DstTrees(MaxNodes - Cardinality(src), ~args.source.slash)
    /\ InitRest

\* any command line and any state of the cache, over one pair of trees
InitCli ==
    /\ args \in [cache : CacheStates, recursive : BOOLEAN, name : {"", "b"},
                 source : PathArgs,
                 destination : DestArgs]
    /\ src = {Entry(<<"a">>, "file", 1)}
    /\ dst = {}
    /\ InitRest

Init == selfFirst = TRUE /\ (InitWalk \/ InitCli)
InitAnyOrder == selfFirst \in BOOLEAN /\ (InitWalk \/ InitCli)

Next ==
    \/ Main
    \/ GetEnter \/ GetSelf \/ GetDir \/ GetFile
    \/ UploadEnter \/ UploadEntry
    \/ ImportEnter \/ ImportSelf \/ ImportDir \/ ImportFile
    \/ Return
    \/ Rerun
    \/ Replay

Spec == Init /\ [][Next]_vars
\* the program is one thread that runs on whenever a call has returned
WalkStep ==
    \/ Main
    \/ GetEnter \/ GetSelf \/ GetDir \/ GetFile
    \/ UploadEnter \/ UploadEntry
    \/ ImportEnter \/ ImportSelf \/ ImportDir \/ ImportFile
    \/ Return
SpecFair == Init /\ [][Next]_vars /\ WF_vars(WalkStep)
SpecAnyOrder == InitAnyOrder /\ [][Next]_vars


\* ------------------------------------------------------------------ claims
Transfers == {"download", "upload", "import"}
Creates == {"mkdir", "makedirs"}
\* the transfers and directory creations among a set of requests
Effects(rq) == {r \in rq : r.op \in Transfers \cup Creates}
\* the destination tree when the current run started
RunStart == IF mode = "again" THEN first.dst ELSE dstStart
\* where the walk puts the source directory S itself, and a path below it
Root == IF args.source.slash THEN <<>> ELSE <<SrcBase>>
DestOf(sp) == Root \o sp
\* the source path a destination path of the walk stands for
SrcOf(p) == SubSeq(p, Len(Root) + 1, Len(p))
Shape(fs) == {<<e.path, e.type>> : e \in fs}

\* C1: a recursive sync that completed without error and is run again with
\* nothing changed in between transfers nothing and creates no directory:
\* every line of the second run is a "skipping" line.
C1_Idempotent ==
    mode = "again" =>
        /\ Effects(reqs) = {}
        /\ \A l \in log : l.verb = "skipping"

\* C2: no upload, download or import is issued for a name under which the
\* destination holds a directory (the source child being a file).
C2_NoMismatchTransfer ==
    Recursive =>
        \A r \in reqs : r.op \in Transfers =>
            ~(Has(RunStart, r.path) /\ Node(RunStart, r.path).type = "dir")

\* C3: a source file with a file of the same name at the destination is
\* transferred as "(modified)" exactly when the source's modification time is
\* strictly greater than the destination's, and is skipped as "(exists)"
\* otherwise, so also when the two times are equal.
C3_ModifiedIffNewer ==
    Recursive =>
        \A e \in src :
            (e.type = "file" /\ isfile(RunStart, DestOf(e.path))) =>
                \A l \in log : l.path = DestOf(e.path) =>
                    /\ l.tag = "modified" <=> e.mtime > Node(RunStart, DestOf(e.path)).mtime
                    /\ l.tag \in {"modified", "exists"}

CallsFor(sp) == {c \in BagToSet(calls) : c.sp = sp}

C8_CreateIffNoDirectory ==
    Recursive =>
        /\ \A w \in walked : w.dest # <<>> =>
              ((\E r \in reqs : r.op \in Creates /\ r.path = w.dest)
                  <=> ~isdir(RunStart, w.dest))
        /\ \A l \in log :
              (l.verb = "skipping" /\ l.tag = "exists" /\ isdir(src, SrcOf(l.path)))
                  => isdir(RunStart, l.path)

\* C9: an error ends the run: in the error state no request is issued, the
\* destination is not written and no call is active any more; and the step
\* that fails leaves everything that was at the destination where it is.
C9_ErrorIsFatal ==
    [][/\ status = "error" => (reqs' = reqs /\ dst' = dst /\ status' = "error")
       /\ status' = "error" => (stack' = <<>> /\ \A e \in dst : e \in dst')]_vars

C9_Witness ==
    /\ status = "error"
    /\ \E e \in dst : e \notin RunStart
    /\ \E r \in reqs : r.op \in Transfers

BadCache == args.cache \in {"missing", "malformed", "nokeys"}
Expired == args.cache = "expired"
SlashMisuse == args.source.slash /\ ~args.recursive
Disallowed ==
    \/ args.destination.prefix = url_prefix
    \/ args.source.prefix \notin {agave_prefix, url_prefix}
          /\ args.destination.prefix \notin {agave_prefix, url_prefix}
    \/ args.source.prefix = url_prefix /\ args.recursive

\* C10: with a missing or malformed cache, an expired token, a trailing slash
\* on the source without --recursive or a disallowed pair of types, the
\* process terminates with a message and has issued no HTTP request and no
\* local write.
C10_PreflightNoEffect ==
    (BadCache \/ Expired \/ SlashMisuse \/ Disallowed) =>
        /\ status \in {"main", "aborted"}
        /\ status = "aborted" => msg # ""
        /\ reqs = {} /\ dst = dstStart /\ stack = <<>>

C10_Witness ==
    /\ status = "aborted" /\ Expired /\ ~SlashMisuse /\ ~Disallowed

\* the checks before the dispatch all pass
PreflightOk ==
    /\ ~BadCache /\ ~Expired /\ ~SlashMisuse
    /\ ValidPath(args.source) /\ ValidPath(args.destination)
IsLocal(path) == path.prefix \notin {agave_prefix, url_prefix}
\* the outcome the claim's table gives for the command line
C11_Table ==
    IF Disallowed THEN "exit"
    ELSE IF IsLocal(args.destination)
    THEN (IF args.recursive THEN "recursive_get" ELSE "files_download")
    ELSE IF IsLocal(args.source)
    THEN (IF args.recursive THEN "recursive_upload" ELSE "files_upload")
    ELSE (IF args.recursive THEN "recursive_import" ELSE "files_import")

\* C11: for every pair of source and destination types and either value of
\* --recursive, exactly one outcome is taken: an abort exactly when the
\* destination is a url, both are local or the source is a url with
\* --recursive; otherwise a download to a local destination, an upload from
\* a local source, an import between remote paths, recursive or single.
C11_DispatchTotal ==
    (PreflightOk /\ status # "main") =>
        /\ Walker = C11_Table
        /\ status = "aborted" <=> Disallowed
        /\ status = "aborted" => (reqs = {} /\ stack = <<>> /\ calls = EmptyBag)
        /\ Single => (stack = <<>> /\ calls = EmptyBag /\ \A r \in reqs : r.op = SingleOp)
        /\ Recursive => (reqs # {} => \A r \in reqs :
                            r.op \in {"download", "upload", "import"} =>
                                r.op = (CASE Walker = "recursive_get" -> "download"
                                          [] Walker = "recursive_upload" -> "upload"
                                          [] OTHER -> "import"))

C11_Witness ==
    /\ PreflightOk /\ status = "done"
    /\ args.source.prefix = url_prefix /\ args.destination.prefix = agave_prefix
    /\ \E r \in reqs : r.op = "import"

\* C12: a walker that is called with a destination ending in a separator
\* fails before it has issued a request or written anything.
C12_TrailingSeparatorFailsFast ==
    (Recursive /\ PreflightOk /\ dest_slash) =>
        /\ reqs = {} /\ dst = dstStart /\ log = {}
        /\ status \in {"main", "running", "error"}

\* C13: in a download walk every file write goes into a directory that
\* exists when the write is made: no download is issued, and no file is
\* written, for a path whose directory is not there.
C13_WriteIntoExistingDirectory ==
    [][Walker = "recursive_get" =>
         /\ \A r \in reqs' \ reqs : r.op = "download" => local_isdir(Parent(r.path))
         /\ \A e \in dst' \ dst : e.type = "file" => local_isdir(Parent(e.path))]_vars

C13_Witness ==
    /\ Walker = "recursive_get" /\ status = "done"
    /\ \E e \in dst : /\ e.type = "file" /\ e \notin RunStart
                       /\ ~Has(RunStart, Parent(e.path))
                       /\ \E r \in reqs : r.op = "makedirs" /\ r.path = Parent(e.path)

\* C14: a cache without expires_in or created_at, and a cache whose token
\* has expired, both end the process with the message of the expired token.
C14_ExpiryMessage ==
    (status = "aborted" /\ args.cache \in {"nokeys", "expired"}) =>
        msg = "Access token is expired"

\* C14, amended: an expired token ends the process with the message of the
\* expired token; a cache without expires_in or created_at ends it with the
\* message of the cache that cannot be read, as a missing or malformed one.
C14_MessageByCause ==
    (status # "main" /\ (BadCache \/ Expired)) =>
        /\ status = "aborted"
        /\ Expired => msg = "Access token is expired"
        /\ BadCache => msg = "Error reading from cache"

C14_Witness ==
    /\ status = "aborted" /\ args.cache = "nokeys"
    /\ msg = "Error reading from cache"

\* C15: a file is transferred into a destination directory only when that
\* directory exists; when it was not there at the start of the run, the
\* request that creates it and its "mkdir" line came before the transfer.
C15_CreateBeforeTransfer ==
    [][Recursive =>
         \A r \in reqs' \ reqs : r.op \in Transfers =>
             /\ local_isdir(Parent(r.path))
             /\ ~isdir(RunStart, Parent(r.path)) =>
                    /\ \E c \in reqs : c.op \in Creates /\ c.path = Parent(r.path)
                    /\ \E l \in log : l.verb = "mkdir" /\ l.path = Parent(r.path)]_vars

\* C16: an upload or import call that was given a map of its destination
\* directory's entries does not list that directory again, and no call lists
\* a destination directory more than once.
C16_NoRelisting ==
    [][(stack # <<>> /\ Walker \in {"recursive_upload", "recursive_import"}) =>
         /\ (Top.pc = "enter" /\ Top.info # {}) =>
                CopiesIn(Top.dest, listed') = CopiesIn(Top.dest, listed)
         /\ \A q \in BagToSet(listed') : CopiesIn(q, listed') <= 1]_vars

\* no name of the source tree is taken at the destination by an entry of the
\* other kind, and the place of S itself is not taken by a file
NoCollision ==
    /\ ~dest_isfile
    /\ ~isfile(RunStart, Root)
    /\ \A e \in src : Has(RunStart, DestOf(e.path)) =>
                            Node(RunStart, DestOf(e.path)).type = e.type

\* C17: when a run is over without error, "." came first in every listing
\* and no name collides, every file of the source tree has a file at the
\* same relative path below the destination root (D with skipTopLevel,
\* D/basename(S) without).
C17_Complete ==
    (Recursive /\ status = "done" /\ selfFirst /\ NoCollision) =>
        \A e \in src : e.type = "file" => isfile(dst, DestOf(e.path))

C17_Witness ==
    /\ Recursive /\ status = "done" /\ selfFirst /\ NoCollision
    /\ \E e \in src : /\ e.type = "file" /\ Len(e.path) = 2
                       /\ ~Has(RunStart, DestOf(e.path))
                       /\ isfile(dst, DestOf(e.path))
                       /\ Has(RunStart, DestOf(Parent(e.path)))

\* the destination path q is where the walk puts an entry of the source
\* tree, or the source directory S itself
HasCounterpart(q) ==
    /\ Len(q) >= Len(Root) /\ SubSeq(q, 1, Len(Root)) = Root
    /\ (q = Root \/ Has(src, SrcOf(q)))

SrcDirs == {e \in src : e.type = "dir"}

\* C19: a walker makes one call for the source directory it is started on
\* and at most one for each directory below it, none for the same directory
\* twice, and every run that has started comes to its end, done or in error.
C19_Terminates ==
    /\ [](Recursive =>
            /\ BagCardinality(calls) <= 1 + Cardinality(SrcDirs)
            /\ \A c \in BagToSet(calls) : CallsFor(c.sp) = {c} /\ CopiesIn(c, calls) = 1
            /\ Len(stack) <= 1 + MaxDepth)
    /\ [](status \in {"main", "running"} => <>(status \in {"done", "error", "aborted"}))

C19_Witness ==
    /\ Recursive /\ status = "done"
    /\ Cardinality(SrcDirs) >= 2
    /\ BagCardinality(calls) = 1 + Cardinality(SrcDirs)

====
